---- MODULE Spec2Model ----
(***************************************************************************)
(* A model of skyrim_save_archiver.py: the byte cursor readers and packers,*)
(* the ESS save record codec (ESS.__init__, get_uncompressed,              *)
(* get_compressed), the FILETIME conversion, and the two archive           *)
(* operations compress_files and decompress_files.                         *)
(*                                                                         *)
(* Bytes are integers 0..255 and byte strings are sequences of them.       *)
(* TLC integers are 32 bits wide, so a uint64 is kept as its base-256      *)
(* little-endian numeral (8 digits) and arithmetic on it is done on the    *)
(* numeral; uint16/uint32 values of the model stay below 2^31.             *)
(***************************************************************************)
EXTENDS Integers, Sequences, FiniteSets, TLC

VARIABLES
  \* ---- save record codec
  made,        \* how the input buffer was made (fields, tag, damage)
  input,       \* the bytes handed to ESS(...)
  ess,         \* ESS(input)
  unc,         \* ess.get_uncompressed()
  cmp,         \* ess.get_compressed()
  ess_u,       \* ESS(unc)
  ess_c,       \* ESS(cmp)
  chain,       \* ESS(ESS(unc).get_compressed())
  cpc,         \* position of the codec run
  \* ---- archive operations
  ess_files,   \* compress_files argument: sequence of [name, data]
  skse_files,  \* compress_files argument: sequence of [name, data]
  pc,          \* position of the archive run
  err,         \* message of the exception that ended the run, "" if none
  i,           \* loop index (entries of the current loop already processed)
  total_read,  \* compress_files local
  stream,      \* bytes passed through the stream writer, in order
  appended,    \* categories of the entries appended to the stream, in order
  archive,     \* bytes the stream reader yields for the archive being restored
  pos,         \* cursor of the stream reader
  num_ess_files,
  num_skse_files,
  stem_to_posix_timestamp,
  out_dir,     \* output directory: name -> [data, mtime, run]
  run          \* number of decompress_files runs started

codec_vars == <<made, input, ess, unc, cmp, ess_u, ess_c, chain, cpc>>
archive_vars == <<ess_files, skse_files, pc, err, i, total_read, stream, appended,
                  archive, pos, num_ess_files, num_skse_files,
                  stem_to_posix_timestamp, out_dir, run>>
vars == <<codec_vars, archive_vars>>

----------------------------------------------------------------------------
\* Bounds of the model.

\* longest payload blob of a save record
MaxBlob == 2
\* largest screenshot width (= height) of a save record
MaxShot == 1
\* most files per category handed to compress_files
MaxFiles == 2
\* most bytes missing from the end of a damaged archive
MaxCut == 2
\* most decompress_files runs into the same directory
MaxRuns == 2

----------------------------------------------------------------------------
\* Exception messages of the source, and the error kind each stands for.

NoError == ""
E_UINT64 == "Not enough data for uint64"
E_UINT32 == "Not enough data for uint32"
E_UINT16 == "Not enough data for uint16"
E_WSTRING == "Not enough data for wstring"
E_TOO_LARGE == "too large for wstring"
E_MAGIC == "Invalid magic"
E_VERSION == "Unsupported version"
E_SIZE == "Wrong uncompressed size"
E_COMPRESSION == "Invalid compression type"
E_LZ4 == "LZ4BlockError"
E_EXISTS == "Destination exists."
E_KEY == "KeyError"
E_ZERODIV == "ZeroDivisionError"
E_UNICODE == "UnicodeDecodeError"

ErrorKind(e) ==
  CASE e \in {E_UINT64, E_UINT32, E_UINT16, E_WSTRING} -> "TruncatedInput"
    [] e \in {E_MAGIC, E_VERSION, E_COMPRESSION} -> "InvalidFormat"
    [] e = E_SIZE -> "SizeMismatch"
    [] e = E_TOO_LARGE -> "FieldTooLarge"
    [] e = E_EXISTS -> "AlreadyExists"
    [] e = E_KEY -> "UnresolvedReference"
    [] e = NoError -> "None"
    [] OTHER -> "Other"

----------------------------------------------------------------------------
\* Byte cursor I/O.

Min(a, b) == IF a < b THEN a ELSE b

\* f.read(n): up to n bytes from the cursor, fewer at the end of the stream
Read(buf, p, n) == SubSeq(buf, p + 1, Min(p + n, Len(buf)))

\* f.read(): everything from the cursor on
ReadAll(buf, p) == SubSeq(buf, p + 1, Len(buf))

\* struct.unpack('<H') and ('<L'): little-endian value of 2 and 4 bytes
U16Val(d) == d[1] + 256 * d[2]
U32Val(d) == d[1] + 256 * d[2] + 65536 * d[3] + 16777216 * d[4]

read_uint64(buf, p) ==
  LET data == Read(buf, p, 8) IN
  IF Len(data) # 8 THEN [err |-> E_UINT64, val |-> <<>>, pos |-> p + Len(data)]
  ELSE [err |-> NoError, val |-> data, pos |-> p + 8]

read_uint32(buf, p) ==
  LET data == Read(buf, p, 4) IN
  IF Len(data) # 4 THEN [err |-> E_UINT32, val |-> 0, pos |-> p + Len(data)]
  ELSE [err |-> NoError, val |-> U32Val(data), pos |-> p + 4]

read_uint16(buf, p) ==
  LET data == Read(buf, p, 2) IN
  IF Len(data) # 2 THEN [err |-> E_UINT16, val |-> 0, pos |-> p + Len(data)]
  ELSE [err |-> NoError, val |-> U16Val(data), pos |-> p + 2]

read_wstring(buf, p) ==
  LET size == read_uint16(buf, p) IN
  IF size.err # NoError THEN [err |-> size.err, val |-> <<>>, pos |-> size.pos]
  ELSE LET data == Read(buf, size.pos, size.val) IN
       IF Len(data) # size.val
       THEN [err |-> E_WSTRING, val |-> <<>>, pos |-> size.pos + Len(data)]
       ELSE [err |-> NoError, val |-> data, pos |-> size.pos + size.val]

\* struct.pack('<Q') of a uint64 kept as its numeral
pack_uint64(v) == v

pack_uint32(v) ==
  <<v % 256, (v \div 256) % 256, (v \div 65536) % 256, (v \div 16777216) % 256>>

pack_uint16(v) == <<v % 256, (v \div 256) % 256>>

\* the guard of pack_wstring
wstring_too_large(v) == Len(v) > 65535

pack_wstring(v) == pack_uint16(Len(v)) \o v

----------------------------------------------------------------------------
\* windows_filetime_to_unix_second, on base-256 little-endian numerals.

\* January 1, 1970 as MS file time: 116444736000000000
EPOCH_AS_FILETIME == <<0, 128, 62, 213, 222, 177, 157, 1>>

RECURSIVE NumGE(_, _, _)
\* a >= b, comparing digits k, k-1, .. 1
NumGE(a, b, k) ==
  IF k = 0 THEN TRUE
  ELSE IF a[k] # b[k] THEN a[k] > b[k]
  ELSE NumGE(a, b, k - 1)

RECURSIVE NumSub(_, _, _, _)
\* digits k.. of a - b (a >= b), bw the borrow into digit k
NumSub(a, b, k, bw) ==
  IF k > Len(a) THEN <<>>
  ELSE LET d == a[k] - b[k] - bw IN
       <<IF d < 0 THEN d + 256 ELSE d>> \o NumSub(a, b, k + 1, IF d < 0 THEN 1 ELSE 0)

RECURSIVE NumDiv(_, _, _, _)
\* digits 1..k of the quotient of a by d (d <= 10000), r the remainder carried
\* into digit k
NumDiv(a, d, k, r) ==
  IF k = 0 THEN <<>>
  ELSE LET cur == r * 256 + a[k] IN
       NumDiv(a, d, k - 1, cur % d) \o <<cur \div d>>

\* the integer a numeral stands for; the model's timestamps are below 2^31
NumVal(a) == a[1] + 256 * a[2] + 65536 * a[3] + 16777216 * a[4]

\* a // (10**9 // 100) for a numeral a >= 0: 10^7 = 10000 * 1000
NumDivTicks(a) == NumDiv(NumDiv(a, 10000, Len(a), 0), 1000, Len(a), 0)

\* a conversion that rounds toward zero
windows_filetime_truncated(ft) ==
  IF NumGE(ft, EPOCH_AS_FILETIME, 8)
  THEN NumVal(NumDivTicks(NumSub(ft, EPOCH_AS_FILETIME, 1, 0)))
  ELSE 0 - NumVal(NumDivTicks(NumSub(EPOCH_AS_FILETIME, ft, 1, 0)))

windows_filetime_to_unix_second(ft) ==
  IF NumGE(ft, EPOCH_AS_FILETIME, 8)
  THEN NumVal(NumDivTicks(NumSub(ft, EPOCH_AS_FILETIME, 1, 0)))
  ELSE \* floor division of a negative difference -n: -(((n - 1) // 10^7) + 1)
       LET n == NumSub(EPOCH_AS_FILETIME, ft, 1, 0)
           n1 == NumSub(n, <<1, 0, 0, 0, 0, 0, 0, 0>>, 1, 0)
       IN  0 - (NumVal(NumDivTicks(n1)) + 1)

----------------------------------------------------------------------------
\* lz4.block.  A buffer shorter than 13 bytes is emitted by LZ4 as one
\* sequence of literals: a token whose high nibble is the literal count, then
\* the literals.  Blobs of the model are shorter than that.

lz4_block_compress(x) == <<16 * Len(x)>> \o x

\* lz4.block.decompress(src, uncompressed_size=n): the output may be shorter
\* than n (the caller compares the lengths); a block that does not fit in n
\* bytes, ends inside its literals or is empty is an LZ4BlockError.  A block
\* that continues after its literals holds a match, which no block of the
\* model does: it is reported as corrupt.
lz4_block_decompress(src, n) ==
  IF src = <<>> THEN [err |-> E_LZ4, val |-> <<>>]
  ELSE LET lit == src[1] \div 16 IN
       IF lit = 15 \/ Len(src) - 1 # lit \/ lit > n
       THEN [err |-> E_LZ4, val |-> <<>>]
       ELSE [err |-> NoError, val |-> SubSeq(src, 2, Len(src))]

----------------------------------------------------------------------------
\* The save record codec: class ESS.

\* b'TESV_SAVEGAME'
MAGIC == <<84, 69, 83, 86, 95, 83, 65, 86, 69, 71, 65, 77, 69>>

\* the only supported version (SE)
SUPPORTED_VERSION == 12

\* an ESS(...) call that raised
Raise(e) == [err |-> e]

\* the reads of ESS.__init__ up to the compression type, in order: attribute
\* and reader ("raw4" is the unchecked f.read(4))
HeaderReads ==
  << [attr |-> "headerSize", by |-> "uint32"],
     [attr |-> "version", by |-> "uint32"],
     [attr |-> "saveNumber", by |-> "uint32"],
     [attr |-> "playerName", by |-> "wstring"],
     [attr |-> "playerLevel", by |-> "uint32"],
     [attr |-> "playerLocation", by |-> "wstring"],
     [attr |-> "gameDate", by |-> "wstring"],
     [attr |-> "playerRaceEditorId", by |-> "wstring"],
     [attr |-> "playerSex", by |-> "uint16"],
     [attr |-> "playerCurExp", by |-> "raw4"],
     [attr |-> "playerLvlUpExp", by |-> "raw4"],
     [attr |-> "filetime", by |-> "uint64"],
     [attr |-> "shotWidth", by |-> "uint32"],
     [attr |-> "shotHeight", by |-> "uint32"],
     [attr |-> "compressionType", by |-> "uint16"] >>

\* f.read(n) with no check of the length obtained
read_raw(buf, p, n) ==
  [err |-> NoError, val |-> Read(buf, p, n), pos |-> p + Len(Read(buf, p, n))]

ReadBy(by, buf, p) ==
  CASE by = "uint16" -> read_uint16(buf, p)
    [] by = "uint32" -> read_uint32(buf, p)
    [] by = "uint64" -> read_uint64(buf, p)
    [] by = "wstring" -> read_wstring(buf, p)
    [] by = "raw4" -> read_raw(buf, p, 4)

\* a decoder that takes any version
version_unchecked(attr, val) == FALSE

\* the version check that follows the read of self.version
version_unsupported(attr, val) == attr = "version" /\ val # SUPPORTED_VERSION

RECURSIVE ReadHeader(_, _, _, _)
\* reads k.. of HeaderReads from cursor p; self holds the attributes set so far
ReadHeader(buf, p, k, self) ==
  IF k > Len(HeaderReads) THEN [err |-> NoError, pos |-> p, self |-> self]
  ELSE LET got == ReadBy(HeaderReads[k].by, buf, p) IN
       IF got.err # NoError THEN [err |-> got.err, pos |-> got.pos, self |-> self]
       ELSE IF version_unsupported(HeaderReads[k].attr, got.val)
       THEN [err |-> E_VERSION, pos |-> got.pos, self |-> self]
       ELSE ReadHeader(buf, got.pos, k + 1, (HeaderReads[k].attr :> got.val) @@ self)

\* the payload of a record of compression type 2, framed from cursor p
ReadCompressed(buf, p, self) ==
  LET uncompressedLen == read_uint32(buf, p)
      compressedLen == read_uint32(buf, p + 4)
      blob == lz4_block_decompress(ReadAll(buf, p + 8), uncompressedLen.val)
  IN  IF uncompressedLen.err # NoError THEN Raise(uncompressedLen.err)
      ELSE IF compressedLen.err # NoError THEN Raise(compressedLen.err)
      ELSE IF blob.err # NoError THEN Raise(blob.err)
      ELSE IF Len(blob.val) # uncompressedLen.val THEN Raise(E_SIZE)
      ELSE [uncompressedLen |-> uncompressedLen.val,
            compressedLen |-> compressedLen.val,
            uncompressedBlob |-> blob.val] @@ self

\* the screenshot and the payload, from cursor p.  The attributes
\* uncompressedLen and compressedLen exist only for compression type 2; they
\* are 0 here for type 0.
ReadBody(buf, p, self) ==
  LET shot == read_raw(buf, p, 4 * self.shotWidth * self.shotHeight) IN
  IF self.compressionType = 0
  THEN [screenshotData |-> shot.val, uncompressedLen |-> 0, compressedLen |-> 0,
        uncompressedBlob |-> ReadAll(buf, shot.pos)] @@ self
  ELSE IF self.compressionType = 2
  THEN ReadCompressed(buf, shot.pos, [screenshotData |-> shot.val] @@ self)
  ELSE Raise(E_COMPRESSION)

ESS_after_header(buf, h) ==
  IF h.err # NoError THEN Raise(h.err) ELSE ReadBody(buf, h.pos, h.self)

\* ESS.__init__ on the bytes of a buffer or file
ESS(buf) ==
  IF Read(buf, 0, 13) # MAGIC THEN Raise(E_MAGIC)
  ELSE ESS_after_header(buf, ReadHeader(buf, 13, 1, [err |-> NoError]))

\* the chunks get_uncompressed and get_compressed have in common, up to the
\* compression type
header_chunks(self) ==
  MAGIC
  \o pack_uint32(self.headerSize)
  \o pack_uint32(self.version)
  \o pack_uint32(self.saveNumber)
  \o pack_wstring(self.playerName)
  \o pack_uint32(self.playerLevel)
  \o pack_wstring(self.playerLocation)
  \o pack_wstring(self.gameDate)
  \o pack_wstring(self.playerRaceEditorId)
  \o pack_uint16(self.playerSex)
  \o self.playerCurExp
  \o self.playerLvlUpExp
  \o pack_uint64(self.filetime)
  \o pack_uint32(self.shotWidth)
  \o pack_uint32(self.shotHeight)

\* whether one of the four pack_wstring calls of an encoder raises
wstring_raises(self) ==
  \E v \in {self.playerName, self.playerLocation, self.gameDate,
            self.playerRaceEditorId} : wstring_too_large(v)

\* an encoder that writes the compression type the record was read with
get_uncompressed_keeps_type(self) ==
  IF wstring_raises(self) THEN [err |-> E_TOO_LARGE, data |-> <<>>]
  ELSE [err |-> NoError,
        data |-> header_chunks(self)
                 \o pack_uint16(self.compressionType)
                 \o self.screenshotData
                 \o self.uncompressedBlob]

get_uncompressed(self) ==
  IF wstring_raises(self) THEN [err |-> E_TOO_LARGE, data |-> <<>>]
  ELSE [err |-> NoError,
        data |-> header_chunks(self)
                 \o pack_uint16(0)
                 \o self.screenshotData
                 \o self.uncompressedBlob]

\* an encoder that writes the two declared lengths in the other order
get_compressed_lengths_swapped(self) ==
  IF wstring_raises(self) THEN [err |-> E_TOO_LARGE, data |-> <<>>]
  ELSE LET compressedBlob == lz4_block_compress(self.uncompressedBlob) IN
       [err |-> NoError,
        data |-> header_chunks(self)
                 \o pack_uint16(2)
                 \o self.screenshotData
                 \o pack_uint32(Len(compressedBlob))
                 \o pack_uint32(Len(self.uncompressedBlob))
                 \o compressedBlob]

get_compressed(self) ==
  IF wstring_raises(self) THEN [err |-> E_TOO_LARGE, data |-> <<>>]
  ELSE LET compressedBlob == lz4_block_compress(self.uncompressedBlob) IN
       [err |-> NoError,
        data |-> header_chunks(self)
                 \o pack_uint16(2)
                 \o self.screenshotData
                 \o pack_uint32(Len(self.uncompressedBlob))
                 \o pack_uint32(Len(compressedBlob))
                 \o compressedBlob]

get_filetime_as_posix_seconds(self) == windows_filetime_to_unix_second(self.filetime)

----------------------------------------------------------------------------
\* Input buffers of the codec: save files written field by field, whole or
\* damaged.

\* 2023-11-14 22:13:20 UTC plus 9999999 ticks, and 5 ticks before 1970
FT_2023 == <<127, 150, 5, 199, 71, 23, 218, 1>>
FT_1969 == <<251, 127, 62, 213, 222, 177, 157, 1>>
\* 2020-09-13 12:26:40 UTC exactly
FT_2020 == <<0, 128, 166, 33, 201, 137, 214, 1>>

\* the payload blob and the screenshot of a made-up save: distinct bytes
Blob(n) == [k \in 1..n |-> k]
Shot(w) == [k \in 1..(4 * w * w) |-> 9 + k]

\* a small number as a little-endian uint16 / uint32
LE2(n) == <<n, 0>>
LE4(n) == <<n, 0, 0, 0>>

Bases ==
  [playerName : {<<>>, <<80>>}, filetime : {FT_2023, FT_1969},
   shot : 0..MaxShot, tag : {0, 1, 2}, blob : 0..MaxBlob]

\* the bytes of a save file with the fields of b; for tag 2 the payload is
\* framed with the declared lengths ulen and clen
SaveFile(b, version, ulen, clen) ==
  MAGIC \o LE4(7) \o LE4(version) \o LE4(3)
  \o LE2(Len(b.playerName)) \o b.playerName
  \o LE4(5)
  \o LE2(1) \o <<76>>
  \o LE2(0)
  \o LE2(2) \o <<82, 83>>
  \o LE2(1)
  \o <<21, 22, 23, 24>> \o <<31, 32, 33, 34>>
  \o b.filetime
  \o LE4(b.shot) \o LE4(b.shot)
  \o LE2(b.tag)
  \o Shot(b.shot)
  \o (IF b.tag = 2
      THEN LE4(ulen) \o LE4(clen) \o <<16 * b.blob>> \o Blob(b.blob)
      ELSE Blob(b.blob))

\* a well-formed save file
Whole(b) == SaveFile(b, 12, b.blob, b.blob + 1)

\* offset of the compression type, of the screenshot and of the payload
\* framing in a save file made from b
TagAt(b) == 13 + 12 + (2 + Len(b.playerName)) + 4 + 3 + 2 + 4 + 2 + 4 + 4 + 8 + 4 + 4
ShotAt(b) == TagAt(b) + 2
PayloadAt(b) == ShotAt(b) + 4 * b.shot * b.shot

Damages(b) ==
  {[kind |-> k, n |-> 0] : k \in {"none", "magic", "version", "clen"}}
  \cup {[kind |-> "ulen", n |-> n] : n \in {b.blob + 1} \cup ({b.blob - 1} \ {-1})}
  \cup {[kind |-> "cut", n |-> n] : n \in 0..(Len(Whole(b)) - 1)}

Damaged(b, d) ==
  CASE d.kind = "none" -> Whole(b)
    [] d.kind = "magic" -> [Whole(b) EXCEPT ![13] = 88]
    [] d.kind = "version" -> SaveFile(b, 13, b.blob, b.blob + 1)
    [] d.kind = "clen" -> SaveFile(b, 12, b.blob, b.blob + 2)
    [] d.kind = "ulen" -> SaveFile(b, 12, d.n, b.blob + 1)
    [] d.kind = "cut" -> SubSeq(Whole(b), 1, d.n)

----------------------------------------------------------------------------
\* File names, as sequences of code points.

\* an encoder that writes each code point as one byte
utf8_encode_one_byte(str) == str

\* str.encode(encoding='utf-8'), for code points below 2048
RECURSIVE utf8_encode(_)
utf8_encode(str) ==
  IF str = <<>> THEN <<>>
  ELSE (IF Head(str) < 128 THEN <<Head(str)>>
        ELSE <<192 + (Head(str) \div 64), 128 + (Head(str) % 64)>>)
       \o utf8_encode(Tail(str))

\* bytes.decode(encoding='utf-8'), for one- and two-byte sequences
RECURSIVE utf8_decode(_)
utf8_decode(b) ==
  IF b = <<>> THEN [err |-> NoError, val |-> <<>>]
  ELSE IF b[1] < 128
  THEN LET rest == utf8_decode(Tail(b)) IN
       [err |-> rest.err, val |-> <<b[1]>> \o rest.val]
  ELSE IF b[1] >= 194 /\ b[1] < 224 /\ Len(b) >= 2 /\ b[2] >= 128 /\ b[2] < 192
  THEN LET rest == utf8_decode(Tail(Tail(b))) IN
       [err |-> rest.err, val |-> <<(b[1] - 192) * 64 + (b[2] - 128)>> \o rest.val]
  ELSE [err |-> E_UNICODE, val |-> <<>>]

RECURSIVE rfind_dot(_, _)
\* str.rfind('.') among the first k code points, 1-based; 0 if there is none
rfind_dot(name, k) ==
  IF k = 0 THEN 0 ELSE IF name[k] = 46 THEN k ELSE rfind_dot(name, k - 1)

\* the stem of a name with the dot at k: the suffix starts at the last dot,
\* unless that dot is the first or the last character
stem_at(name, k) == IF 1 < k /\ k < Len(name) THEN SubSeq(name, 1, k - 1) ELSE name

\* Path(name).stem
stem(name) == stem_at(name, rfind_dot(name, Len(name)))

----------------------------------------------------------------------------
\* Files handed to compress_files.

\* "A.ess", "A.bak", "é.ess", "B.ess", "D.ess"
A_ESS == <<65, 46, 101, 115, 115>>
A_BAK == <<65, 46, 98, 97, 107>>
E_ESS == <<233, 46, 101, 115, 115>>
B_ESS == <<66, 46, 101, 115, 115>>
\* "A.skse", "é.skse", "C.skse"
A_SKSE == <<65, 46, 115, 107, 115, 101>>
E_SKSE == <<233, 46, 115, 107, 115, 101>>
C_SKSE == <<67, 46, 115, 107, 115, 101>>

\* a stored save, a compressed save, a save of another extension with the
\* stem of the first and another filetime, and a file of the wrong version
EssPool ==
  { [name |-> A_ESS,
     data |-> Whole([playerName |-> <<80>>, filetime |-> FT_2023, shot |-> MaxShot,
                     tag |-> 0, blob |-> MaxBlob])],
    [name |-> E_ESS,
     data |-> Whole([playerName |-> <<>>, filetime |-> FT_2020, shot |-> 0,
                     tag |-> 2, blob |-> MaxBlob])],
    [name |-> A_BAK,
     data |-> Whole([playerName |-> <<80>>, filetime |-> FT_1969, shot |-> 0,
                     tag |-> 2, blob |-> 0])],
    [name |-> B_ESS,
     data |-> Damaged([playerName |-> <<>>, filetime |-> FT_2020, shot |-> 0,
                       tag |-> 0, blob |-> 0], [kind |-> "version", n |-> 0])] }

\* sidecar files: one empty, one whose stem no save has
SksePool ==
  { [name |-> A_SKSE, data |-> <<7, 8>>],
    [name |-> E_SKSE, data |-> <<>>],
    [name |-> C_SKSE, data |-> <<7>>] }

\* the sequences of distinct elements of S, of length at most n: a directory
\* listing names no file twice
SeqsUpTo(S, n) ==
  UNION {{q \in [1..k -> S] : \A a, b \in 1..k : q[a] = q[b] => a = b} : k \in 0..n}

EmptyMap == [x \in {} |-> 0]

\* a file found in the output directory before the first restore
PriorFile ==
  [data |-> <<9>>, mtime |-> 5, cat |-> "prior", run |-> 0, ord |-> 0,
   rec |-> [err |-> "unset"]]

\* the modification time of a file just created, before os.utime: the wall
\* clock, later than every timestamp of the model
CURRENT_TIME == 2000000000

Unset == [err |-> "unset", data |-> <<>>]

\* the archive variables while the codec runs, and the codec variables while
\* an archive operation runs
ArchiveIdle ==
  /\ ess_files = <<>> /\ skse_files = <<>> /\ pc = "off" /\ err = NoError
  /\ i = 0 /\ total_read = 0 /\ stream = <<>> /\ appended = <<>>
  /\ archive = <<>> /\ pos = 0 /\ num_ess_files = 0 /\ num_skse_files = 0
  /\ stem_to_posix_timestamp = <<>> /\ out_dir = <<>> /\ run = 0

CodecIdle ==
  /\ made = [base |-> [playerName |-> <<>>, filetime |-> FT_2023, shot |-> 0,
                       tag |-> 0, blob |-> 0],
             damage |-> [kind |-> "none", n |-> 0]]
  /\ input = <<>> /\ ess = Unset /\ unc = Unset /\ cmp = Unset
  /\ ess_u = Unset /\ ess_c = Unset /\ chain = Unset /\ cpc = "off"

CodecInit ==
  /\ \E b \in Bases : \E d \in Damages(b) :
       /\ made = [base |-> b, damage |-> d]
       /\ input = Damaged(b, d)
  /\ ess = Unset /\ unc = Unset /\ cmp = Unset
  /\ ess_u = Unset /\ ess_c = Unset /\ chain = Unset
  /\ cpc = "input"
  /\ ArchiveIdle

\* ess = ESS(input)
Decode ==
  /\ cpc = "input"
  /\ ess' = ESS(input)
  /\ cpc' = "decoded"
  /\ UNCHANGED <<made, input, unc, cmp, ess_u, ess_c, chain, archive_vars>>

\* ess.get_uncompressed() and ess.get_compressed()
Encode ==
  /\ cpc = "decoded"
  /\ ess.err = NoError
  /\ unc' = get_uncompressed(ess)
  /\ cmp' = get_compressed(ess)
  /\ cpc' = "encoded"
  /\ UNCHANGED <<made, input, ess, ess_u, ess_c, chain, archive_vars>>

\* ESS(...) of both encodings
Redecode ==
  /\ cpc = "encoded"
  /\ unc.err = NoError /\ cmp.err = NoError
  /\ ess_u' = ESS(unc.data)
  /\ ess_c' = ESS(cmp.data)
  /\ cpc' = "redecoded"
  /\ UNCHANGED <<made, input, ess, unc, cmp, chain, archive_vars>>

\* ESS(ESS(unc).get_compressed()): stored, then compressed, then decoded
Switch ==
  /\ cpc = "redecoded"
  /\ ess_u.err = NoError
  /\ chain' = ESS(get_compressed(ess_u).data)
  /\ cpc' = "switched"
  /\ UNCHANGED <<made, input, ess, unc, cmp, ess_u, ess_c, archive_vars>>

CodecNext == Decode \/ Encode \/ Redecode \/ Switch

SpecCodec == CodecInit /\ [][CodecNext]_vars

----------------------------------------------------------------------------
\* compress_files.  The archive file holds the stream writer's input behind
\* one zstd frame; stream is that input, in the order it was written.

\* append_blob: the chunks of blob, written in order
append_blob(compressor, blob) == compressor \o blob

ArchiveInit ==
  /\ ess_files \in SeqsUpTo(EssPool, MaxFiles)
  /\ skse_files \in SeqsUpTo(SksePool, MaxFiles)
  /\ out_dir \in {EmptyMap, (A_SKSE :> PriorFile)}
  /\ pc = "idle" /\ err = NoError /\ i = 0 /\ total_read = 0
  /\ stream = <<>> /\ appended = <<>> /\ archive = <<>> /\ pos = 0
  /\ num_ess_files = 0 /\ num_skse_files = 0
  /\ stem_to_posix_timestamp = EmptyMap /\ run = 0
  /\ CodecIdle

restore_vars == <<archive, pos, num_ess_files, num_skse_files,
                  stem_to_posix_timestamp, out_dir, run>>

\* the header is written
CompressOpen ==
  /\ pc = "idle"
  /\ stream' = append_blob(<<>>, pack_uint32(Len(ess_files)) \o pack_uint32(Len(skse_files)))
  /\ appended' = <<>>
  /\ total_read' = 0
  /\ i' = 0
  /\ pc' = "c_ess"
  /\ UNCHANGED <<ess_files, skse_files, err, restore_vars, codec_vars>>

\* a loop that notes the exception and goes on with the next file
CompressSwallow(e, tr, st, ap) ==
  /\ err' = e
  /\ total_read' = tr /\ stream' = st /\ appended' = ap
  /\ i' = i + 1
  /\ UNCHANGED pc

\* an exception leaves compress_files: the stream writer is closed on what
\* was written so far
CompressRaise(e, tr, st, ap) ==
  /\ pc' = "c_failed" /\ err' = e
  /\ total_read' = tr /\ stream' = st /\ appended' = ap
  /\ i' = i

\* an entry was appended and the ratio total_write / total_read is shown
CompressShowRatio(tr, st, ap) ==
  IF tr = 0 THEN CompressRaise(E_ZERODIV, tr, st, ap)
  ELSE /\ total_read' = tr /\ stream' = st /\ appended' = ap
       /\ i' = i + 1
       /\ UNCHANGED <<pc, err>>

\* the entry of a save whose get_uncompressed() is u
CompressEssAppend(f, tr, u) ==
  IF u.err # NoError THEN CompressRaise(u.err, tr, stream, appended)
  ELSE IF wstring_too_large(utf8_encode(f.name))
  THEN CompressRaise(E_TOO_LARGE, tr, stream, appended)
  ELSE CompressShowRatio(
         tr,
         append_blob(append_blob(stream, pack_wstring(utf8_encode(f.name))
                                         \o pack_uint32(Len(u.data))),
                     u.data),
         Append(appended, "ESS"))

\* the entry of a save file f decoded as e
CompressEssEntry(f, tr, e) ==
  IF e.err # NoError THEN CompressRaise(e.err, tr, stream, appended)
  ELSE CompressEssAppend(f, tr, get_uncompressed(e))

\* one pass of the loop over ess_files
CompressEss ==
  /\ pc = "c_ess"
  /\ i < Len(ess_files)
  /\ CompressEssEntry(ess_files[i + 1], total_read + Len(ess_files[i + 1].data),
                      ESS(ess_files[i + 1].data))
  /\ UNCHANGED <<ess_files, skse_files, restore_vars, codec_vars>>

\* the loop over ess_files ends
CompressEssEnd ==
  /\ pc = "c_ess"
  /\ i = Len(ess_files)
  /\ pc' = "c_skse"
  /\ i' = 0
  /\ UNCHANGED <<ess_files, skse_files, err, total_read, stream, appended,
                 restore_vars, codec_vars>>

\* a loop that passes over an empty sidecar file
CompressSkseEntry_skips_empty(f, tr) ==
  IF f.data = <<>>
  THEN /\ total_read' = tr /\ i' = i + 1
       /\ UNCHANGED <<pc, err, stream, appended>>
  ELSE CompressShowRatio(
         tr,
         append_blob(append_blob(stream, pack_wstring(utf8_encode(f.name))
                                         \o pack_uint32(Len(f.data))),
                     f.data),
         Append(appended, "SKSE"))

\* the entry of a sidecar file f
CompressSkseEntry(f, tr) ==
  IF wstring_too_large(utf8_encode(f.name))
  THEN CompressRaise(E_TOO_LARGE, tr, stream, appended)
  ELSE CompressShowRatio(
         tr,
         append_blob(append_blob(stream, pack_wstring(utf8_encode(f.name))
                                         \o pack_uint32(Len(f.data))),
                     f.data),
         Append(appended, "SKSE"))

\* one pass of the loop over skse_files
CompressSkse ==
  /\ pc = "c_skse"
  /\ i < Len(skse_files)
  /\ CompressSkseEntry(skse_files[i + 1], total_read + Len(skse_files[i + 1].data))
  /\ UNCHANGED <<ess_files, skse_files, restore_vars, codec_vars>>

\* the loop over skse_files ends and the stream writer is closed
CompressClose ==
  /\ pc = "c_skse"
  /\ i = Len(skse_files)
  /\ pc' = "c_done"
  /\ UNCHANGED <<ess_files, skse_files, err, i, total_read, stream, appended,
                 restore_vars, codec_vars>>

----------------------------------------------------------------------------
\* decompress_files.  archive is what the stream reader yields: the stream
\* compress_files wrote, or a damaged archive with bytes missing at its end.

os_path_exists(name) == name \in DOMAIN out_dir

\* no guard
destination_unchecked(name) == FALSE

\* the guard "if os.path.exists(output_path): raise" of both loops
destination_exists(name) == os_path_exists(name)

\* stem_to_posix_timestamp.get(key, 0)
lookup_default(table, key) ==
  IF key \in DOMAIN table THEN [err |-> NoError, val |-> table[key]]
  ELSE [err |-> NoError, val |-> 0]

\* stem_to_posix_timestamp[key]
lookup(table, key) ==
  IF key \in DOMAIN table THEN [err |-> NoError, val |-> table[key]]
  ELSE [err |-> E_KEY, val |-> 0]

\* an exception leaves decompress_files, with the output directory as dir and
\* the table as tbl
DecompressRaise(e, dir, tbl) ==
  /\ pc' = "d_failed" /\ err' = e
  /\ out_dir' = dir /\ stem_to_posix_timestamp' = tbl
  /\ UNCHANGED <<pos, i>>

\* open(output_path, 'wb') and write, when the path does not exist.  The
\* file is noted with its category, the run and loop pass that wrote it and,
\* for a save, the record it was encoded from.
write_new(dir, name, data, cat, rec) ==
  IF name \in DOMAIN dir THEN dir
  ELSE (name :> [data |-> data, mtime |-> CURRENT_TIME, cat |-> cat,
                 run |-> run, ord |-> i, rec |-> rec]) @@ dir

\* os.utime(output_path, times=(ts, ts))
os_utime(dir, name, ts) == [dir EXCEPT ![name].mtime = ts]

\* the header counts are read and the loops are entered with an empty table
DecompressStart(a, n1, n2) ==
  /\ archive' = a
  /\ run' = run + 1
  /\ i' = 0
  /\ stem_to_posix_timestamp' = EmptyMap
  /\ IF n1.err # NoError \/ n2.err # NoError
     THEN /\ pc' = "d_failed"
          /\ err' = IF n1.err # NoError THEN n1.err ELSE n2.err
          /\ UNCHANGED <<pos, num_ess_files, num_skse_files>>
     ELSE /\ pc' = "d_ess" /\ err' = NoError
          /\ num_ess_files' = n1.val /\ num_skse_files' = n2.val
          /\ pos' = n2.pos
  /\ UNCHANGED <<ess_files, skse_files, total_read, stream, appended, out_dir,
                 codec_vars>>

\* the archive just written, whole or with up to MaxCut bytes missing at its
\* end, is restored
DecompressOpen ==
  /\ pc \in {"c_done", "c_failed"}
  /\ \E cut \in 0..Min(MaxCut, Len(stream)) :
       DecompressStart(SubSeq(stream, 1, Len(stream) - cut),
                       read_uint32(SubSeq(stream, 1, Len(stream) - cut), 0),
                       read_uint32(SubSeq(stream, 1, Len(stream) - cut), 4))

\* the same archive is restored again into the same directory
DecompressAgain ==
  /\ pc \in {"d_done", "d_failed"}
  /\ run < MaxRuns
  /\ DecompressStart(archive, read_uint32(archive, 0), read_uint32(archive, 4))

\* the save e of an entry is written as c = e.get_compressed(), its timestamp
\* recorded and set; p is the cursor after the entry
EssEntryWrite(name, p, e, ts, c) ==
  IF c.err # NoError
  THEN DecompressRaise(c.err, write_new(out_dir, name, <<>>, "ESS", e),
                       (stem(name) :> ts) @@ stem_to_posix_timestamp)
  ELSE /\ stem_to_posix_timestamp' = (stem(name) :> ts) @@ stem_to_posix_timestamp
       /\ out_dir' = os_utime(write_new(out_dir, name, c.data, "ESS", e), name, ts)
       /\ pos' = p
       /\ i' = i + 1
       /\ UNCHANGED <<pc, err>>

\* the payload d of an entry, decoded as e
EssEntryRecord(name, p, e) ==
  IF e.err # NoError THEN DecompressRaise(e.err, out_dir, stem_to_posix_timestamp)
  ELSE EssEntryWrite(name, p, e, get_filetime_as_posix_seconds(e), get_compressed(e))

\* decompressor.read(filesize), after the read of the size
EssEntryData(name, filesize) ==
  IF filesize.err # NoError
  THEN DecompressRaise(filesize.err, out_dir, stem_to_posix_timestamp)
  ELSE EssEntryRecord(name, read_raw(archive, filesize.pos, filesize.val).pos,
                      ESS(read_raw(archive, filesize.pos, filesize.val).val))

\* the destination check, after the name was decoded; p is the cursor after
\* the name
EssEntryPath(name, p) ==
  IF name.err # NoError THEN DecompressRaise(name.err, out_dir, stem_to_posix_timestamp)
  ELSE IF destination_exists(name.val)
  THEN DecompressRaise(E_EXISTS, out_dir, stem_to_posix_timestamp)
  ELSE EssEntryData(name.val, read_uint32(archive, p))

EssEntryName(raw) ==
  IF raw.err # NoError THEN DecompressRaise(raw.err, out_dir, stem_to_posix_timestamp)
  ELSE EssEntryPath(utf8_decode(raw.val), raw.pos)

\* one pass of the loop over the ESS entries
DecompressEss ==
  /\ pc = "d_ess"
  /\ i < num_ess_files
  /\ EssEntryName(read_wstring(archive, pos))
  /\ UNCHANGED <<ess_files, skse_files, total_read, stream, appended, archive,
                 num_ess_files, num_skse_files, run, codec_vars>>

\* the loop over the ESS entries ends
DecompressEssEnd ==
  /\ pc = "d_ess"
  /\ i = num_ess_files
  /\ pc' = "d_skse"
  /\ i' = 0
  /\ UNCHANGED <<ess_files, skse_files, err, total_read, stream, appended,
                 restore_vars, codec_vars>>

\* the file of a sidecar entry was written into dir; its timestamp is looked
\* up and set
SkseEntryTime(name, p, dir, ts) ==
  IF ts.err # NoError THEN DecompressRaise(ts.err, dir, stem_to_posix_timestamp)
  ELSE /\ out_dir' = os_utime(dir, name, ts.val)
       /\ pos' = p
       /\ i' = i + 1
       /\ UNCHANGED <<pc, err, stem_to_posix_timestamp>>

\* the payload d = decompressor.read(filesize) is written to a new file
SkseEntryWrite(name, d) ==
  SkseEntryTime(name, d.pos, write_new(out_dir, name, d.val, "SKSE", [err |-> "unset"]),
                lookup(stem_to_posix_timestamp, stem(name)))

\* the second check of the path: an existing file is left alone and the
\* payload is not read
SkseEntryData(name, filesize) ==
  IF filesize.err # NoError
  THEN DecompressRaise(filesize.err, out_dir, stem_to_posix_timestamp)
  ELSE IF os_path_exists(name)
  THEN /\ pos' = filesize.pos
       /\ i' = i + 1
       /\ UNCHANGED <<pc, err, out_dir, stem_to_posix_timestamp>>
  ELSE SkseEntryWrite(name, read_raw(archive, filesize.pos, filesize.val))

SkseEntryPath(name, p) ==
  IF name.err # NoError THEN DecompressRaise(name.err, out_dir, stem_to_posix_timestamp)
  ELSE IF destination_exists(name.val)
  THEN DecompressRaise(E_EXISTS, out_dir, stem_to_posix_timestamp)
  ELSE SkseEntryData(name.val, read_uint32(archive, p))

SkseEntryName(raw) ==
  IF raw.err # NoError THEN DecompressRaise(raw.err, out_dir, stem_to_posix_timestamp)
  ELSE SkseEntryPath(utf8_decode(raw.val), raw.pos)

\* one pass of the loop over the sidecar entries
DecompressSkse ==
  /\ pc = "d_skse"
  /\ i < num_skse_files
  /\ SkseEntryName(read_wstring(archive, pos))
  /\ UNCHANGED <<ess_files, skse_files, total_read, stream, appended, archive,
                 num_ess_files, num_skse_files, run, codec_vars>>

\* the loop over the sidecar entries ends
DecompressClose ==
  /\ pc = "d_skse"
  /\ i = num_skse_files
  /\ pc' = "d_done"
  /\ UNCHANGED <<ess_files, skse_files, err, i, total_read, stream, appended,
                 restore_vars, codec_vars>>

Next ==
  \/ CompressOpen \/ CompressEss \/ CompressEssEnd \/ CompressSkse \/ CompressClose
  \/ DecompressOpen \/ DecompressAgain
  \/ DecompressEss \/ DecompressEssEnd \/ DecompressSkse \/ DecompressClose

Spec == ArchiveInit /\ [][Next]_vars

----------------------------------------------------------------------------
\* Properties of the save record codec, under SpecCodec.

\* the fields of a record other than the compression type and the two
\* declared lengths
SemanticFields ==
  {"headerSize", "version", "saveNumber", "playerName", "playerLevel",
   "playerLocation", "gameDate", "playerRaceEditorId", "playerSex",
   "playerCurExp", "playerLvlUpExp", "filetime", "shotWidth", "shotHeight",
   "screenshotData", "uncompressedBlob"}

\* a is a record and agrees with the record b on every semantic field
SameRecord(a, b) == a.err = NoError /\ \A f \in SemanticFields : a[f] = b[f]

\* e is the record of a valid save: decoding succeeded and the screenshot has
\* its 4 * width * height bytes
ValidSave(e) ==
  e.err = NoError /\ Len(e.screenshotData) = 4 * e.shotWidth * e.shotHeight

\* C1: for every valid save b, both encodings of ESS(b) are produced and
\* decode to a record equal to ESS(b) on every field but the compression type
\* and the two declared lengths (which are 0 / stored and 2 / compressed), and
\* so does the record obtained by storing, decoding, compressing and decoding.
C1_RoundTrip ==
  ValidSave(ess) =>
    /\ cpc = "encoded" => unc.err = NoError /\ cmp.err = NoError
    /\ cpc \in {"redecoded", "switched"} =>
         /\ SameRecord(ess_u, ess) /\ ess_u.compressionType = 0
         /\ SameRecord(ess_c, ess) /\ ess_c.compressionType = 2
    /\ cpc = "switched" => SameRecord(chain, ess) /\ chain.compressionType = 2

\* a compressed save with a screenshot and a payload went through the switch
C1_Witness ==
  /\ cpc = "switched"
  /\ made.damage.kind = "none" /\ made.base.tag = 2
  /\ made.base.shot = MaxShot /\ made.base.blob = MaxBlob
  /\ ess.compressionType = 2
  /\ chain.uncompressedBlob = Blob(MaxBlob) /\ chain.screenshotData = Shot(MaxShot)

\* C4: a buffer that ends inside a fixed-size or declared-size read of the
\* decoder (after the magic, before the end of the screenshot) is refused
\* with TruncatedInput.
C4_ShortReadFails ==
  ( /\ cpc # "input"
    /\ made.damage.kind = "cut"
    /\ made.base.tag \in {0, 2}
    /\ made.damage.n >= 13
    /\ made.damage.n < PayloadAt(made.base) )
  => ErrorKind(ess.err) = "TruncatedInput"

\* C7: a buffer whose first 13 bytes are not the magic, whose version field
\* is not 12, or whose compression type is neither 0 nor 2 is refused with
\* InvalidFormat, and a refused buffer yields no record and is not encoded.
C7_Rejection ==
  cpc # "input" =>
    /\ Read(input, 0, 13) # MAGIC => ErrorKind(ess.err) = "InvalidFormat"
    /\ (Len(input) >= 21 /\ SubSeq(input, 18, 21) # <<12, 0, 0, 0>>)
         => ErrorKind(ess.err) = "InvalidFormat"
    /\ (Len(input) >= TagAt(made.base) + 2 /\ made.base.tag \notin {0, 2})
         => ErrorKind(ess.err) = "InvalidFormat"
    /\ ess.err # NoError => DOMAIN ess = {"err"} /\ cpc = "decoded"

\* a whole buffer of compression type 1 was refused for its compression type
C7_Witness ==
  /\ cpc = "decoded"
  /\ made.damage.kind = "none" /\ made.base.tag = 1
  /\ made.base.shot = MaxShot
  /\ ess.err = E_COMPRESSION

----------------------------------------------------------------------------
\* Properties of compress_files and decompress_files, under Spec.

RECURSIVE EntriesOf(_, _)
\* the entries framed in buf from cursor p on: name bytes, payload, and
\* whether the payload has its declared length
EntriesOf(buf, p) ==
  IF p >= Len(buf) THEN <<>>
  ELSE LET nm == read_wstring(buf, p) IN
       IF nm.err # NoError THEN <<[name |-> <<>>, data |-> <<>>, whole |-> FALSE]>>
       ELSE LET sz == read_uint32(buf, nm.pos) IN
            IF sz.err # NoError THEN <<[name |-> nm.val, data |-> <<>>, whole |-> FALSE]>>
            ELSE <<[name |-> nm.val, data |-> Read(buf, sz.pos, sz.val),
                    whole |-> sz.pos + sz.val <= Len(buf)]>>
                 \o EntriesOf(buf, sz.pos + sz.val)

StreamEntries == EntriesOf(stream, 8)

CountOf(cat) == Cardinality({k \in DOMAIN appended : appended[k] = cat})

\* the names handed to compress_files, in order, as written in entries
NamesGiven ==
  [k \in 1..(Len(ess_files) + Len(skse_files)) |->
     IF k <= Len(ess_files) THEN utf8_encode(ess_files[k].name)
     ELSE utf8_encode(skse_files[k - Len(ess_files)].name)]

\* the files restored by the current run, of one category
Restored(cat) ==
  {n \in DOMAIN out_dir : out_dir[n].cat = cat /\ out_dir[n].run = run}

\* data is the compressed form of the record e: compression type 2 after the
\* header, the screenshot, the payload length, the length of the rest, the rest
CompressedForm(data, e) ==
  LET at == Len(header_chunks(e))
      lens == at + 2 + Len(e.screenshotData)
  IN  /\ Len(data) >= lens + 8
      /\ SubSeq(data, at + 1, at + 2) = <<2, 0>>
      /\ SubSeq(data, at + 3, lens) = e.screenshotData
      /\ U32Val(SubSeq(data, lens + 1, lens + 4)) = Len(e.uncompressedBlob)
      /\ U32Val(SubSeq(data, lens + 5, lens + 8)) = Len(data) - (lens + 8)

\* the name of the entry at the cursor of the restore, when a loop is about
\* to process one and its name can be read
NextRaw == read_wstring(archive, pos)
NextName == utf8_decode(NextRaw.val)
AtEntry ==
  /\ pc \in {"d_ess", "d_skse"}
  /\ i < (IF pc = "d_ess" THEN num_ess_files ELSE num_skse_files)
  /\ NextRaw.err = NoError
  /\ NextName.err = NoError

\* the saves given are valid, the names given are distinct, and the output
\* directory held nothing before the restore
InputsPlain ==
  /\ \A k \in DOMAIN ess_files : ValidSave(ESS(ess_files[k].data))
  /\ \A a, b \in DOMAIN NamesGiven : NamesGiven[a] = NamesGiven[b] => a = b
  /\ \A n \in DOMAIN out_dir : out_dir[n].cat # "prior"

\* and every sidecar given has the stem of a save given
InputsPaired ==
  /\ InputsPlain
  /\ \A k \in DOMAIN skse_files :
       \E j \in DOMAIN ess_files : stem(ess_files[j].name) = stem(skse_files[k].name)

\* the first restore, of the whole archive
FirstWholeRestore == run = 1 /\ archive = stream

\* the output directory holds exactly the files given, each written in the
\* pass of its place in its list
ExactlyGiven ==
  /\ DOMAIN out_dir = {ess_files[k].name : k \in DOMAIN ess_files}
                      \cup {skse_files[k].name : k \in DOMAIN skse_files}
  /\ \A k \in DOMAIN ess_files :
       out_dir[ess_files[k].name].cat = "ESS" /\ out_dir[ess_files[k].name].ord = k - 1
  /\ \A k \in DOMAIN skse_files :
       out_dir[skse_files[k].name].cat = "SKSE" /\ out_dir[skse_files[k].name].ord = k - 1

ExpectedEpoch(ft) ==
  CASE ft = FT_2023 -> 1700000000
    [] ft = FT_2020 -> 1600000000
    [] ft = FT_1969 -> -1

\* C5, as claimed: after a successful restore every restored sidecar has the
\* modification time of every restored save with its stem, the epoch seconds
\* of that save's filetime.
C5_SameStemSameTime ==
  pc = "d_done" =>
    \A s \in Restored("SKSE") :
      /\ \E e \in Restored("ESS") : stem(e) = stem(s)
      /\ \A e \in Restored("ESS") :
           stem(e) = stem(s) =>
             /\ out_dir[s].mtime = out_dir[e].mtime
             /\ out_dir[s].mtime = ExpectedEpoch(out_dir[e].rec.filetime)

\* C5, amended: after a successful restore every restored save has the epoch
\* seconds of its own filetime as modification time, and every restored
\* sidecar has the modification time of the save with its stem that was
\* restored last.
C5_LastStemTime ==
  pc = "d_done" =>
    /\ \A e \in Restored("ESS") :
         out_dir[e].mtime = ExpectedEpoch(out_dir[e].rec.filetime)
    /\ \A s \in Restored("SKSE") :
         /\ \E e \in Restored("ESS") : stem(e) = stem(s)
         /\ \A e \in Restored("ESS") :
              ( /\ stem(e) = stem(s)
                /\ \A o \in Restored("ESS") :
                     stem(o) = stem(s) => out_dir[o].ord <= out_dir[e].ord )
              => out_dir[s].mtime = out_dir[e].mtime

\* a sidecar was restored after a save of its stem dated before 1970
C5_Witness ==
  /\ pc = "d_done"
  /\ A_BAK \in Restored("ESS") /\ A_SKSE \in Restored("SKSE")
  /\ out_dir[A_SKSE].mtime = -1

\* C6: each run starts with an empty table, only the loop over the ESS
\* entries fills it, and a sidecar entry that reaches the lookup with a stem
\* the table does not hold ends the run with UnresolvedReference.
C6_Unresolved ==
  [][ /\ run' # run => stem_to_posix_timestamp' = EmptyMap
      /\ stem_to_posix_timestamp' # stem_to_posix_timestamp
           => (run' # run \/ pc = "d_ess")
      /\ ( /\ AtEntry /\ pc = "d_skse"
           /\ NextName.val \notin DOMAIN out_dir
           /\ read_uint32(archive, NextRaw.pos).err = NoError
           /\ stem(NextName.val) \notin DOMAIN stem_to_posix_timestamp )
         => (pc' = "d_failed" /\ ErrorKind(err') = "UnresolvedReference") ]_vars

\* a run that recorded a save ended on a sidecar of another stem
C6_Witness ==
  /\ pc = "d_failed" /\ err = E_KEY
  /\ DOMAIN stem_to_posix_timestamp # {}
  /\ C_SKSE \in Restored("SKSE")

\* C8 (state part): once the header is written the stream starts with the
\* two counts given, holds whole entries only, no ESS entry after a sidecar
\* entry, and when compress_files returns the counts are the numbers of
\* entries appended per category and the names are those given, in order.
C8_Layout ==
  pc # "idle" =>
    LET entries == StreamEntries IN
    /\ Read(stream, 0, 8) = LE4(Len(ess_files)) \o LE4(Len(skse_files))
    /\ Len(entries) = Len(appended)
    /\ \A k \in DOMAIN entries : entries[k].whole
    /\ \A a, b \in DOMAIN appended :
         (a < b /\ appended[a] = "SKSE") => appended[b] = "SKSE"
    /\ pc = "c_done" =>
         /\ U32Val(SubSeq(stream, 1, 4)) = CountOf("ESS")
         /\ U32Val(SubSeq(stream, 5, 8)) = CountOf("SKSE")
         /\ [k \in DOMAIN entries |-> entries[k].name] = NamesGiven

\* C8: the layout holds throughout, and the stream only grows at its end:
\* nothing written is revised.
C8_Sequence ==
  /\ []C8_Layout
  /\ [][ /\ Len(stream') >= Len(stream)
         /\ SubSeq(stream', 1, Len(stream)) = stream ]_vars

\* an archive of two saves and two sidecars was completed
C8_Witness ==
  /\ pc = "c_done"
  /\ CountOf("ESS") = 2 /\ CountOf("SKSE") = 2
  /\ skse_files[1].data = <<>>

\* the payload of an entry starts with the header of a save of compression
\* type 0
StoredForm(data) ==
  LET header == ReadHeader(data, 13, 1, [err |-> NoError]) IN
  /\ Read(data, 0, 13) = MAGIC
  /\ header.err = NoError
  /\ header.self.compressionType = 0

\* C9: every ESS entry in the stream carries compression type 0, and every
\* save file a restore wrote is the compressed form of the record it was
\* encoded from.
C9_Canonical ==
  /\ LET entries == StreamEntries IN
     \A k \in DOMAIN appended :
       appended[k] = "ESS" => (k <= Len(entries) /\ StoredForm(entries[k].data))
  /\ \A n \in DOMAIN out_dir :
       out_dir[n].cat = "ESS" => CompressedForm(out_dir[n].data, out_dir[n].rec)

\* a stored save and a compressed save were packed and restored
C9_Witness ==
  /\ pc = "d_done"
  /\ A_ESS \in Restored("ESS") /\ E_ESS \in Restored("ESS")
  /\ \E k \in DOMAIN ess_files :
       ess_files[k].name = E_ESS /\ ESS(ess_files[k].data).compressionType = 2
  /\ \E k \in DOMAIN ess_files :
       ess_files[k].name = A_ESS /\ ESS(ess_files[k].data).compressionType = 0

\* C10: a step that raises leaves the loop index where it was and ends the
\* run, and after it nothing is appended to the stream and, within the run,
\* nothing is read, recorded or written.
C10_Abort ==
  [][ /\ (err = NoError /\ err' # NoError /\ run' = run)
           => (i' = i /\ pc' \in {"c_failed", "d_failed"})
      /\ err # NoError => (stream' = stream /\ appended' = appended)
      /\ (err # NoError /\ run' = run)
           => UNCHANGED <<out_dir, pos, i, stem_to_posix_timestamp>> ]_vars

\* packing ended on the first of two saves, refused for its version
C10_Witness ==
  /\ pc = "c_failed" /\ ErrorKind(err) = "InvalidFormat"
  /\ i = 0 /\ Len(ess_files) = 2 /\ appended = <<>>

====
